---- MODULE Spec2Model ----
(***************************************************************************)
(* A model of the CCPanel dashboard backend (src/dev/main.py): the hourly  *)
(* log rotation, the telemetry and fault-code loops, and the control and   *)
(* radio request handlers.                                                 *)
(*                                                                         *)
(* Time is counted in whole hour buckets: the string the code builds with  *)
(* strftime('%Y-%m-%d_%H') is modelled by the integer number of the hour.  *)
(* Python's None is the empty tuple and a present value x is <<x>>.        *)
(***************************************************************************)
EXTENDS Integers, Sequences, FiniteSets, TLC

VARIABLES
    clock,              \* datetime.now(), as an hour bucket
    logFiles,           \* the hour buckets that have a file in LOG_DIR
    current_log_file,   \* main.py:83, None or <<hour of the open file>>
    last_hour,          \* main.py:84, None or <<hour>>
    openHandles,        \* number of file handles opened and not closed
    fsOps,              \* file operations of the most recent rotate_logs call
    lastCalled,         \* name of the most recent operation
    initFiles,          \* the files LOG_DIR held when the process started
    rotatedHours,       \* the hour buckets in which rotate_logs has run
    control_states,     \* main.py:56-63
    radio_data,         \* main.py:65-76 (the station list is Stations)
    emitted,            \* events published by the most recent handler
    status,             \* HTTP status of the most recent handler (0: none)
    lastRequest,        \* the most recent request
    nRequests,          \* number of requests handled
    connection,         \* main.py:17-27: "none", or the OBD handle, "up" or "down"
    sensor_data,        \* main.py:42-52
    passState,          \* get_obd_data: "idle", "running", "returned", "raised"
    passMode,           \* the branch the running pass took at line 124
    passPc,             \* how many channels the running pass has written
    passLog,            \* the responses the current pass got, by channel
    error_codes,        \* main.py:54
    mainPc,             \* the main thread, lines 431-446
    fastPc,             \* the sensor thread, update_sensors
    slowPc,             \* the error thread, update_errors
    tickLog,            \* the log entry of the current fast tick, or None
    tickSteps,          \* what the current fast tick has done so far, in order
    tickUpdate,         \* the sensor_update payload of the current tick, or None
    tickAlerts,         \* the alert events of the current tick
    errorUpdate,        \* the payload of the last error_update, or None
    connPc,             \* handle_connect of one new client, lines 381-395
    inbox,              \* the events the new client has received, in order
    seen,               \* the origin of what GET /api/sensors read, or None
    dtcPc,              \* get_dtc_codes taken statement by statement
    dtcResp,            \* the response get_dtc_codes is working on
    dtcBuf,             \* the list literal of lines 217-222 while it is built
    dtcStart,           \* the clock when the running get_dtc_codes was entered
    lastErrors,         \* the codes in error_codes when get_dtc_codes was entered
    seenErrors,         \* what the last GET /api/errors read, or None
    rotPc,              \* rotate_logs / log_sensor_data by thread, by statement
    fileObj,            \* the file object each thread has opened, by thread
    curOwner,           \* the thread whose file object current_log_file names
    closedWrite         \* a write on a closed file object has been attempted

logVars == <<clock, logFiles, current_log_file, last_hour, openHandles,
             fsOps, lastCalled, initFiles, rotatedHours>>

reqVars == <<control_states, radio_data, emitted, status, lastRequest, nRequests>>

passVars == <<connection, sensor_data, passState, passMode, passPc, passLog>>

loopVars == <<error_codes, mainPc, fastPc, slowPc, tickLog, tickSteps, tickUpdate,
              tickAlerts, errorUpdate>>

connVars == <<connPc, inbox>>

readVars == <<seen>>

dtcVars == <<dtcPc, dtcResp, dtcBuf, dtcStart, lastErrors, seenErrors>>

raceVars == <<rotPc, fileObj, curOwner, closedWrite>>

stepVars == <<connVars, readVars, dtcVars, raceVars>>

vars == <<logVars, reqVars, passVars, loopVars, stepVars>>

None == <<>>
Some(x) == <<x>>

-----------------------------------------------------------------------------
(* Bounds *)

\* the last hour bucket the clock reaches
MaxHour == 5
\* how many hour buckets before the start may already have a log file
MaxOldFiles == 3
\* how many control and radio requests a run handles
MaxRequests == 2
\* how many events other threads broadcast while a client connects
MaxLive == 2

-----------------------------------------------------------------------------
(* Log rotation, main.py:86-108 *)

\* get_log_filename: the file is named after the hour bucket of `now`
get_log_filename(now) == now

\* a rotate_logs that never remembers the hour it rotated in
HourChangedAlways(now, lh) == TRUE

\* the hour-change test of rotate_logs (line 96); last_hour starts as None
HourChanged(now, lh) == Some(now) # lh

\* the file rotate_logs deletes: the bucket exactly two hours before `now`
OldFile(now) == now - 2

\* rotate_logs as a function of the clock and the log state: the new state
\* and the file operations performed, in the order the code performs them
rotate_logs(now, st) ==
    IF HourChanged(now, st.last_hour)
    THEN LET closeOps == IF st.current_log_file # None
                         THEN <<[op |-> "close", hour |-> st.current_log_file[1]]>>
                         ELSE <<>>
             openOps  == <<[op |-> "open", hour |-> get_log_filename(now)]>>
             delOps   == IF OldFile(now) \in (st.files \cup {get_log_filename(now)})
                         THEN <<[op |-> "delete", hour |-> OldFile(now)]>>
                         ELSE <<>>
         IN  [files   |-> (st.files \cup {get_log_filename(now)}) \ {OldFile(now)},
              current_log_file |-> Some(get_log_filename(now)),
              last_hour |-> Some(now),
              handles |-> st.handles - Len(closeOps) + 1,
              ops     |-> closeOps \o openOps \o delOps]
    ELSE [files   |-> st.files,
          current_log_file |-> st.current_log_file,
          last_hour |-> st.last_hour,
          handles |-> st.handles,
          ops     |-> <<>>]

LogState == [files |-> logFiles, current_log_file |-> current_log_file,
             last_hour |-> last_hour, handles |-> openHandles]

\* the state after the module has been imported (lines 78-84), with any
\* set of older files left in LOG_DIR by an earlier run
LogInit(old) ==
    /\ clock = 0
    /\ logFiles = old
    /\ initFiles = old
    /\ current_log_file = None
    /\ last_hour = None
    /\ openHandles = 0
    /\ fsOps = <<>>
    /\ lastCalled = "none"
    /\ rotatedHours = {}

\* the effect of one call of rotate_logs() at the current clock
Rotated ==
    LET r == rotate_logs(clock, LogState)
    IN  /\ logFiles' = r.files
        /\ current_log_file' = r.current_log_file
        /\ last_hour' = r.last_hour
        /\ openHandles' = r.handles
        /\ fsOps' = r.ops
        /\ lastCalled' = "rotate_logs"
        /\ rotatedHours' = rotatedHours \cup {clock}
        /\ UNCHANGED <<clock, initFiles>>

\* rotate_logs() called on its own
CallRotateLogs == Rotated /\ UNCHANGED <<reqVars, stepVars, passVars, loopVars>>

\* the wall clock enters the next hour bucket
Tick ==
    /\ clock < MaxHour
    /\ clock' = clock + 1
    /\ lastCalled' = "tick"
    /\ UNCHANGED <<logFiles, current_log_file, last_hour, openHandles, fsOps,
                   initFiles, rotatedHours, reqVars, stepVars, passVars, loopVars>>

-----------------------------------------------------------------------------
(* JSON values of request payloads and of the state they are stored in.     *)
(* Every value is a record [t, v] so that values of different Python types  *)
(* can be compared: v is the integer, 0/1 for a boolean, and the number of  *)
(* tenths for a number with a fractional part.                              *)

JInt(n)    == [t |-> "int", v |-> n]
JBool(b)   == [t |-> "bool", v |-> IF b THEN 1 ELSE 0]
JFloat(n)  == [t |-> "float", v |-> n]
JNull      == [t |-> "null", v |-> 0]
JStr       == [t |-> "str", v |-> 0]

\* the value of a number in tenths
Tenths(x) == IF x.t = "float" THEN x.v ELSE 10 * x.v

\* Python orders numbers (bool included) and raises TypeError when an int is
\* compared with a str or with None
Comparable(x) == x.t \in {"int", "bool", "float"}

-----------------------------------------------------------------------------
(* Control and radio state and their handlers, main.py:56-76, 325-371,      *)
(* 401-429                                                                  *)

Controls == {"light", "seat_heating", "seat_cooling", "steering_heating",
             "spotlight", "screen_switch"}

Stations == <<"Power FM 98.5", "Best FM 95.7", "Number 1 FM 92.0",
              "Radyo D 90.8", "Joy FM 94.3">>

ControlStatesInit == [c \in Controls |-> JBool(c = "light")]

RadioDataInit == [current_station |-> JInt(0), is_playing |-> JBool(TRUE),
                  volume |-> JInt(70)]

ControlUpdate(name, state) ==
    [event |-> "control_update", control |-> name, state |-> state]

RadioUpdate(rd) == [event |-> "radio_update", data |-> rd]

\* 0 <= x < len(radio_data['stations'])
StationInRange(x) == 0 <= Tenths(x) /\ Tenths(x) < 10 * Len(Stations)

\* 0 <= x <= 100
VolumeInRange(x) == 0 <= Tenths(x) /\ Tenths(x) <= 1000

\* POST /api/control/<control_name>
set_control(cs, name, data) ==
    IF name \in DOMAIN cs /\ "state" \in DOMAIN data
    THEN [cs |-> [cs EXCEPT ![name] = data["state"]],
          emitted |-> <<ControlUpdate(name, data["state"])>>,
          status |-> 200]
    ELSE [cs |-> cs, emitted |-> <<>>, status |-> 400]

\* data.get(key): None when the key is absent
Get(data, key) == IF key \in DOMAIN data THEN data[key] ELSE JNull

\* the control_change message; `name` is data.get('control')
handle_control_change(cs, name, data) ==
    IF name \in DOMAIN cs
    THEN [cs |-> [cs EXCEPT ![name] = Get(data, "state")],
          emitted |-> <<ControlUpdate(name, Get(data, "state"))>>,
          status |-> 200]
    ELSE [cs |-> cs, emitted |-> <<>>, status |-> 200]

\* The handlers' intermediate result r is [rd, emitted, status]; status 0
\* means nothing has been applied so far, and 500 that a comparison raised
\* TypeError, which ends the handler.
Entry(rd) == [rd |-> rd, emitted |-> <<>>, status |-> 0]

Raised(r) == [r EXCEPT !.status = 500]

\* radio_data[field] = x, then emit('radio_update', radio_data)
ApplyField(r, field, x) ==
    LET rd == [r.rd EXCEPT ![field] = x]
    IN  [rd |-> rd, emitted |-> Append(r.emitted, RadioUpdate(rd)), status |-> 200]

\* if 'station' in data and 0 <= data['station'] < len(...): (lines 346, 416)
StationField(r, data) ==
    IF r.status = 500 \/ "station" \notin DOMAIN data THEN r
    ELSE IF ~Comparable(data["station"]) THEN Raised(r)
    ELSE IF StationInRange(data["station"])
         THEN ApplyField(r, "current_station", data["station"])
         ELSE r

\* if 'playing' in data: (lines 356, 421)
PlayingField(r, data) ==
    IF r.status = 500 \/ "playing" \notin DOMAIN data THEN r
    ELSE ApplyField(r, "is_playing", data["playing"])

\* if 'volume' in data and 0 <= data['volume'] <= 100: (lines 366, 426)
VolumeField(r, data) ==
    IF r.status = 500 \/ "volume" \notin DOMAIN data THEN r
    ELSE IF ~Comparable(data["volume"]) THEN Raised(r)
    ELSE IF VolumeInRange(data["volume"])
         THEN ApplyField(r, "volume", data["volume"])
         ELSE r

\* a POST handler answers 400 unless its field was applied or it raised
Post(r) == IF r.status = 0 THEN [r EXCEPT !.status = 400] ELSE r

\* POST /api/radio/station, /api/radio/play, /api/radio/volume
set_radio_station(rd, data) == Post(StationField(Entry(rd), data))
set_radio_play(rd, data)    == Post(PlayingField(Entry(rd), data))
set_radio_volume(rd, data)  == Post(VolumeField(Entry(rd), data))

\* the radio_change message: the three fields one after the other
handle_radio_change(rd, data) ==
    VolumeField(PlayingField(StationField(Entry(rd), data), data), data)

ReqInit ==
    /\ control_states = ControlStatesInit
    /\ radio_data = RadioDataInit
    /\ emitted = <<>>
    /\ status = 0
    /\ lastRequest = [handler |-> "none", name |-> "", data |-> <<>>]
    /\ nRequests = 0

\* the payloads the requests are drawn from
ControlNames == Controls \cup {"unknown_control"}

StateValues(k) == {JBool(TRUE), JBool(FALSE), JStr}

RadioValues(k) ==
    CASE k = "station" -> {JInt(1), JInt(Len(Stations) - 1), JInt(Len(Stations)),
                           JFloat(25), JStr}
      [] k = "playing" -> {JBool(TRUE), JBool(FALSE), JStr}
      [] k = "volume"  -> {JInt(0), JInt(100), JInt(150), JInt(0 - 1),
                           JFloat(505), JNull}

\* every payload over the given keys: a function from the keys that are
\* present to their values
ControlPayloads ==
    UNION {{d \in [present -> UNION {StateValues(k) : k \in present}] :
              \A k \in present : d[k] \in StateValues(k)} :
           present \in SUBSET {"state"}}

RadioPayloads(keys) ==
    UNION {{d \in [present -> UNION {RadioValues(k) : k \in present}] :
              \A k \in present : d[k] \in RadioValues(k)} :
           present \in SUBSET keys}

Received(handler, name, data) ==
    /\ nRequests < MaxRequests
    /\ nRequests' = nRequests + 1
    /\ lastRequest' = [handler |-> handler, name |-> name, data |-> data]
    /\ UNCHANGED <<logVars, passVars, loopVars, stepVars>>

ControlDone(r) ==
    /\ control_states' = r.cs
    /\ emitted' = r.emitted
    /\ status' = r.status
    /\ UNCHANGED radio_data

RadioDone(r) ==
    /\ radio_data' = r.rd
    /\ emitted' = r.emitted
    /\ status' = r.status
    /\ UNCHANGED control_states

PostSetControl ==
    \E name \in ControlNames, data \in ControlPayloads :
        /\ Received("set_control", name, data)
        /\ ControlDone(set_control(control_states, name, data))

WsControlChange ==
    \E name \in ControlNames, data \in ControlPayloads :
        /\ Received("control_change", name, data)
        /\ ControlDone(handle_control_change(control_states, name, data))

PostRadioStation ==
    \E data \in RadioPayloads({"station"}) :
        /\ Received("set_radio_station", "", data)
        /\ RadioDone(set_radio_station(radio_data, data))

PostRadioPlay ==
    \E data \in RadioPayloads({"playing"}) :
        /\ Received("set_radio_play", "", data)
        /\ RadioDone(set_radio_play(radio_data, data))

PostRadioVolume ==
    \E data \in RadioPayloads({"volume"}) :
        /\ Received("set_radio_volume", "", data)
        /\ RadioDone(set_radio_volume(radio_data, data))

WsRadioChange ==
    \E data \in RadioPayloads({"station", "playing", "volume"}) :
        /\ Received("radio_change", "", data)
        /\ RadioDone(handle_radio_change(radio_data, data))

-----------------------------------------------------------------------------
(* Telemetry sampling, main.py:42-52, 122-209, 262-273.                     *)
(* A raw reading (response.value.magnitude) and a random draw are counted   *)
(* in hundredths; a stored float is counted in tenths, see JFloat.          *)

Channels == {"turbo_pressure", "air_fuel_ratio", "rpm", "speed",
             "fuel_consumption", "motor_load", "motor_temp", "oil_temp",
             "battery_voltage"}

SensorDataInit ==
    [ch \in Channels |->
        CASE ch = "turbo_pressure" -> JFloat(12)
          [] ch = "air_fuel_ratio" -> JFloat(147)
          [] OTHER -> JInt(0)]

\* the order in which get_obd_data queries and writes the channels
ObdOrder == <<"rpm", "speed", "motor_load", "motor_temp", "oil_temp",
              "turbo_pressure", "fuel_consumption", "battery_voltage",
              "air_fuel_ratio">>

\* the order in which simulate_obd_data writes them
SimOrder == <<"turbo_pressure", "air_fuel_ratio", "rpm", "speed",
              "fuel_consumption", "motor_load", "motor_temp", "oil_temp",
              "battery_voltage">>

\* int(x) of a number given in hundredths: truncation towards zero
TruncInt(h) == IF h >= 0 THEN h \div 100 ELSE 0 - ((0 - h) \div 100)

\* round(n / d) to the nearest integer, ties to the even one, as Python's
\* round does
RoundHalfEven(n, d) ==
    LET q == n \div d
        r == n % d
    IN  IF 2 * r < d THEN q
        ELSE IF 2 * r > d THEN q + 1
        ELSE IF q % 2 = 0 THEN q ELSE q + 1

\* a fallback that stores the empty response instead of a number
FallbackNull(ch) == JNull

\* the value stored when the response is null (lines 133, 141, ..., 205, 209)
Fallback(ch) == IF ch = "air_fuel_ratio" THEN JFloat(147) ELSE JInt(0)

\* a conversion that takes the kPa reading for bar and the fuel level for
\* the consumption
ConvertUnscaled(ch, h) ==
    CASE ch \in {"rpm", "speed", "motor_load", "motor_temp", "oil_temp"} ->
            JInt(TruncInt(h))
      [] ch = "turbo_pressure" -> JFloat(RoundHalfEven(h, 10))
      [] ch = "fuel_consumption" -> JFloat(RoundHalfEven(h, 10))
      [] ch \in {"battery_voltage", "air_fuel_ratio"} ->
            JFloat(RoundHalfEven(h, 10))

\* the value stored for a reading of h hundredths (lines 135, ..., 207)
Convert(ch, h) ==
    CASE ch \in {"rpm", "speed", "motor_load", "motor_temp", "oil_temp"} ->
            JInt(TruncInt(h))
      [] ch = "turbo_pressure" -> JFloat(RoundHalfEven(h, 1000))
      [] ch = "fuel_consumption" ->
            IF h > 0 THEN JFloat(RoundHalfEven(10000 - h, 100)) ELSE JInt(0)
      [] ch \in {"battery_voltage", "air_fuel_ratio"} ->
            JFloat(RoundHalfEven(h, 10))

\* connection.query(cmd): no data, an exception, or a reading
NullResponse  == [kind |-> "null", raw |-> 0]
RaiseResponse == [kind |-> "raise", raw |-> 0]
Reading(h)    == [kind |-> "value", raw |-> h]

\* One channel of get_obd_data: the query, the is_null test and the write.
\* Only the air-fuel query is inside a try (lines 201-209).
ObdStep(sd, ch, resp) ==
    IF resp.kind = "raise" /\ ch # "air_fuel_ratio"
    THEN [data |-> sd, raised |-> TRUE]
    ELSE [data |-> [sd EXCEPT ![ch] = IF resp.kind = "value"
                                       THEN Convert(ch, resp.raw)
                                       ELSE Fallback(ch)],
          raised |-> FALSE]

\* a generator whose spans are one unit too wide
SimulatedWide(ch, d) ==
    CASE ch = "turbo_pressure"   -> JFloat(RoundHalfEven(800 + 8 * d, 100))
      [] ch = "air_fuel_ratio"   -> JFloat(RoundHalfEven(14000 + 15 * d, 100))
      [] ch = "rpm"              -> JInt(TruncInt(150000 + 2600 * d))
      [] ch = "speed"            -> JInt(TruncInt(6000 + 80 * d))
      [] ch = "fuel_consumption" -> JFloat(RoundHalfEven(6000 + 30 * d, 100))
      [] ch = "motor_load"       -> JInt(TruncInt(4000 + 40 * d))
      [] ch = "motor_temp"       -> JInt(TruncInt(8500 + 25 * d))
      [] ch = "oil_temp"         -> JInt(TruncInt(8000 + 20 * d))
      [] ch = "battery_voltage"  -> JFloat(RoundHalfEven(12000 + 9 * d, 100))

\* the value simulate_obd_data stores for a draw of d hundredths
Simulated(ch, d) ==
    CASE ch = "turbo_pressure"   -> JFloat(RoundHalfEven(800 + 8 * d, 100))
      [] ch = "air_fuel_ratio"   -> JFloat(RoundHalfEven(14000 + 15 * d, 100))
      [] ch = "rpm"              -> JInt(TruncInt(150000 + 2500 * d))
      [] ch = "speed"            -> JInt(TruncInt(6000 + 80 * d))
      [] ch = "fuel_consumption" -> JFloat(RoundHalfEven(6000 + 30 * d, 100))
      [] ch = "motor_load"       -> JInt(TruncInt(4000 + 40 * d))
      [] ch = "motor_temp"       -> JInt(TruncInt(8500 + 25 * d))
      [] ch = "oil_temp"         -> JInt(TruncInt(8000 + 20 * d))
      [] ch = "battery_voltage"  -> JFloat(RoundHalfEven(12000 + 8 * d, 100))

\* one line of simulate_obd_data
SimStep(sd, ch, d) == [sd EXCEPT ![ch] = Simulated(ch, d)]

\* the test of line 124: is there a connected OBD handle
IsConnected(conn) == conn = "up"

\* the readings and draws the environment offers
RawReadings(ch) ==
    CASE ch = "rpm"              -> {325075}
      [] ch = "speed"            -> {8850}
      [] ch = "motor_load"       -> {4230}
      [] ch = "motor_temp"       -> {9950, 10100}
      [] ch = "oil_temp"         -> {0 - 550}
      [] ch = "turbo_pressure"   -> {20200}
      [] ch = "fuel_consumption" -> {5500, 0}
      [] ch = "battery_voltage"  -> {1190, 1262}
      [] ch = "air_fuel_ratio"   -> {1462}

Responses(ch) == {NullResponse, RaiseResponse} \cup {Reading(h) : h \in RawReadings(ch)}

Draws == {0, 99}

PassInit ==
    /\ sensor_data = SensorDataInit
    /\ passState = "idle"
    /\ passMode = "none"
    /\ passPc = 0
    /\ passLog = <<>>

\* get_obd_data is entered: line 124 picks the branch
BeginPass ==
    /\ passState \in {"idle", "returned"}
    /\ passState' = "running"
    /\ passMode' = IF IsConnected(connection) THEN "obd" ELSE "sim"
    /\ passPc' = 0
    /\ passLog' = <<>>
    /\ UNCHANGED <<connection, sensor_data, logVars, reqVars, stepVars, loopVars>>

\* the next channel of the connected branch is queried and written
QueryChannel ==
    /\ passState = "running" /\ passMode = "obd" /\ passPc < Len(ObdOrder)
    /\ \E resp \in Responses(ObdOrder[passPc + 1]) :
         LET ch == ObdOrder[passPc + 1]
             r  == ObdStep(sensor_data, ch, resp)
         IN  /\ sensor_data' = r.data
             /\ passLog' = [c \in DOMAIN passLog \cup {ch} |->
                              IF c = ch THEN resp ELSE passLog[c]]
             /\ passState' = IF r.raised THEN "raised" ELSE "running"
             /\ passPc' = IF r.raised THEN passPc ELSE passPc + 1
    /\ UNCHANGED <<connection, passMode, logVars, reqVars, stepVars, loopVars>>

\* the next line of simulate_obd_data
SimulateChannel ==
    /\ passState = "running" /\ passMode = "sim" /\ passPc < Len(SimOrder)
    /\ \E d \in Draws :
         /\ sensor_data' = SimStep(sensor_data, SimOrder[passPc + 1], d)
         /\ passLog' = [c \in DOMAIN passLog \cup {SimOrder[passPc + 1]} |->
                          IF c = SimOrder[passPc + 1] THEN Reading(d) ELSE passLog[c]]
    /\ passPc' = passPc + 1
    /\ UNCHANGED <<connection, passState, passMode, logVars, reqVars, stepVars, loopVars>>

\* get_obd_data returns
EndPass ==
    /\ passState = "running" /\ passPc = Len(ObdOrder)
    /\ passState' = "returned"
    /\ UNCHANGED <<connection, sensor_data, passMode, passPc, passLog,
                   logVars, reqVars, stepVars, loopVars>>

-----------------------------------------------------------------------------
(* The sampling pass and the fault-code pass as functions, main.py:122-260  *)

RECURSIVE ObdPass(_, _, _)
\* the connected branch of get_obd_data from channel i on: it stops at the
\* first query that raises outside a try
ObdPass(sd, i, resps) ==
    IF i > Len(ObdOrder) THEN [data |-> sd, raised |-> FALSE]
    ELSE LET r == ObdStep(sd, ObdOrder[i], resps[ObdOrder[i]])
         IN  IF r.raised THEN r ELSE ObdPass(r.data, i + 1, resps)

RECURSIVE SimPass(_, _, _)
SimPass(sd, i, draws) ==
    IF i > Len(SimOrder) THEN sd
    ELSE SimPass(SimStep(sd, SimOrder[i], draws[SimOrder[i]]), i + 1, draws)

simulate_obd_data(sd, draws) == SimPass(sd, 1, draws)

get_obd_data(conn, sd, resps, draws) ==
    IF ~IsConnected(conn)
    THEN [data |-> simulate_obd_data(sd, draws), raised |-> FALSE]
    ELSE ObdPass(sd, 1, resps)

\* the codes of dtc_descriptions (lines 236-246)
KnownCodes == {"P0300", "P0171", "P0420", "P0455", "P0101", "P0135", "P0301",
               "P0442", "P0500"}

\* texts are tuples: the table's entry for a known code, the generic text
\* with the code in it for any other
Title(code) ==
    IF code \in KnownCodes THEN <<"dtc_descriptions", code, "title">>
    ELSE <<"Hata Kodu", code>>

Description(code) ==
    IF code \in KnownCodes THEN <<"dtc_descriptions", code, "description">>
    ELSE <<"Tanimlanmamis hata kodu.">>

FaultCode(code, now) ==
    [code |-> code, title |-> Title(code), description |-> Description(code),
     time |-> now]

\* the fixed demo list of lines 217-222
DemoCodes(now) ==
    <<FaultCode("P0300", now), FaultCode("P0171", now),
      FaultCode("P0420", now), FaultCode("P0455", now)>>

NullDtc     == [kind |-> "null", codes |-> <<>>]
RaiseDtc    == [kind |-> "raise", codes |-> <<>>]
DtcList(cs) == [kind |-> "value", codes |-> cs]

get_dtc_codes(conn, old, resp, now) ==
    IF ~IsConnected(conn) THEN [codes |-> DemoCodes(now), raised |-> FALSE]
    ELSE IF resp.kind = "raise" THEN [codes |-> old, raised |-> TRUE]
    ELSE IF resp.kind = "null" THEN [codes |-> <<>>, raised |-> FALSE]
    ELSE [codes |-> [i \in 1 .. Len(resp.codes) |-> FaultCode(resp.codes[i], now)],
          raised |-> FALSE]

-----------------------------------------------------------------------------
(* The threads, main.py:275-306 and 431-446 *)

HighTempMessage == "Motor sicakligi kritik seviyede!"
LowVoltageMessage == "Aku voltaji dusuk!"

Alert(message, value) == [type |-> "warning", message |-> message, value |-> value]

\* sensor_data["motor_temp"] > 100 and sensor_data["battery_voltage"] < 12.0
TempCritical(sd) == Tenths(sd["motor_temp"]) > 1000
VoltageLow(sd)   == Tenths(sd["battery_voltage"]) < 120

\* the responses and draws one whole pass is offered in the thread model
FirstReading(ch) == Reading(CHOOSE h \in RawReadings(ch) : TRUE)

LoopResponses ==
    {[ch \in Channels |->
        CASE ch = "motor_temp" -> Reading(t)
          [] ch = "battery_voltage" -> Reading(b)
          [] OTHER -> FirstReading(ch)] :
       t \in RawReadings("motor_temp"), b \in RawReadings("battery_voltage")}
    \cup {[ch \in Channels |-> NullResponse]}
    \cup {[ch \in Channels |-> IF ch = f THEN RaiseResponse ELSE FirstReading(ch)] :
            f \in {"rpm", "battery_voltage", "air_fuel_ratio"}}

LoopDraws == {[ch \in Channels |-> d] : d \in Draws}

DtcResponses == {NullDtc, RaiseDtc, DtcList(<<"P0301", "P1234">>)}

LoopInit ==
    /\ error_codes = <<>>
    /\ mainPc = "rotate_logs"
    /\ fastPc = "get_obd_data"
    /\ slowPc = "get_dtc_codes"
    /\ tickLog = None
    /\ tickSteps = <<>>
    /\ tickUpdate = None
    /\ tickAlerts = <<>>
    /\ errorUpdate = None

\* an exception that leaves the main thread ends the process, and the daemon
\* threads with it
ProcessRuns == mainPc # "dead"

PassIdle == UNCHANGED <<connection, passState, passMode, passPc, passLog>>

\* line 440
MainRotate ==
    /\ mainPc = "rotate_logs"
    /\ Rotated
    /\ mainPc' = "get_obd_data"
    /\ UNCHANGED <<reqVars, stepVars, passVars, error_codes, fastPc, slowPc, tickLog, tickSteps,
                   tickUpdate, tickAlerts, errorUpdate>>

\* line 443
MainObd ==
    /\ mainPc = "get_obd_data"
    /\ \E resps \in LoopResponses, draws \in LoopDraws :
         LET r == get_obd_data(connection, sensor_data, resps, draws)
         IN  /\ sensor_data' = r.data
             /\ mainPc' = IF r.raised THEN "dead" ELSE "get_dtc_codes"
    /\ PassIdle
    /\ UNCHANGED <<logVars, reqVars, stepVars, error_codes, fastPc, slowPc, tickLog, tickSteps,
                   tickUpdate, tickAlerts, errorUpdate>>

\* line 444, then socketio.run serves requests
MainDtc ==
    /\ mainPc = "get_dtc_codes"
    /\ \E resp \in DtcResponses :
         LET r == get_dtc_codes(connection, error_codes, resp, clock)
         IN  /\ error_codes' = r.codes
             /\ mainPc' = IF r.raised THEN "dead" ELSE "serving"
    /\ UNCHANGED <<logVars, reqVars, stepVars, passVars, fastPc, slowPc, tickLog, tickSteps,
                   tickUpdate, tickAlerts, errorUpdate>>

\* line 278: a new tick begins with the sampling pass
FastSample ==
    /\ ProcessRuns /\ fastPc = "get_obd_data"
    /\ \E resps \in LoopResponses, draws \in LoopDraws :
         LET r == get_obd_data(connection, sensor_data, resps, draws)
         IN  /\ sensor_data' = r.data
             /\ fastPc' = IF r.raised THEN "dead" ELSE "log_sensor_data"
    /\ tickLog' = None
    /\ tickSteps' = <<"sample">>
    /\ tickUpdate' = None
    /\ tickAlerts' = <<>>
    /\ PassIdle
    /\ UNCHANGED <<logVars, reqVars, stepVars, error_codes, mainPc, slowPc, errorUpdate>>

\* line 279, log_sensor_data: rotate_logs, then the entry is written; a
\* write or flush that fails raises out of the loop
FastLog ==
    /\ ProcessRuns /\ fastPc = "log_sensor_data"
    /\ Rotated
    /\ \E written \in BOOLEAN :
         /\ tickLog' = IF written THEN Some(sensor_data) ELSE None
         /\ tickSteps' = IF written THEN Append(tickSteps, "log") ELSE tickSteps
         /\ fastPc' = IF written THEN "emit_update" ELSE "dead"
    /\ UNCHANGED <<reqVars, stepVars, passVars, error_codes, mainPc, slowPc, tickUpdate,
                   tickAlerts, errorUpdate>>

\* a loop that publishes the snapshot before it logs it, and again after
FastEmitBeforeLog ==
    /\ ProcessRuns
    /\ fastPc = "emit_update" \/ (fastPc = "log_sensor_data" /\ tickUpdate = None)
    /\ tickUpdate' = Some(sensor_data)
    /\ tickSteps' = Append(tickSteps, "sensor_update")
    /\ fastPc' = IF fastPc = "emit_update" THEN "check_temp" ELSE fastPc
    /\ UNCHANGED <<logVars, reqVars, stepVars, passVars, error_codes, mainPc, slowPc,
                   tickLog, tickAlerts, errorUpdate>>

\* line 282
FastEmit ==
    /\ ProcessRuns /\ fastPc = "emit_update"
    /\ tickUpdate' = Some(sensor_data)
    /\ tickSteps' = Append(tickSteps, "sensor_update")
    /\ fastPc' = "check_temp"
    /\ UNCHANGED <<logVars, reqVars, stepVars, passVars, error_codes, mainPc, slowPc,
                   tickLog, tickAlerts, errorUpdate>>

\* line 285
FastCheckTemp ==
    /\ ProcessRuns /\ fastPc = "check_temp"
    /\ fastPc' = IF TempCritical(sensor_data) THEN "alert_temp" ELSE "check_voltage"
    /\ UNCHANGED <<logVars, reqVars, stepVars, passVars, error_codes, mainPc, slowPc,
                   tickLog, tickSteps, tickUpdate, tickAlerts, errorUpdate>>

\* lines 286-290
FastAlertTemp ==
    /\ ProcessRuns /\ fastPc = "alert_temp"
    /\ tickAlerts' = Append(tickAlerts, Alert(HighTempMessage, sensor_data["motor_temp"]))
    /\ tickSteps' = Append(tickSteps, "alert")
    /\ fastPc' = "check_voltage"
    /\ UNCHANGED <<logVars, reqVars, stepVars, passVars, error_codes, mainPc, slowPc,
                   tickLog, tickUpdate, errorUpdate>>

\* line 292
FastCheckVoltage ==
    /\ ProcessRuns /\ fastPc = "check_voltage"
    /\ fastPc' = IF VoltageLow(sensor_data) THEN "alert_voltage" ELSE "sleep"
    /\ UNCHANGED <<logVars, reqVars, stepVars, passVars, error_codes, mainPc, slowPc,
                   tickLog, tickSteps, tickUpdate, tickAlerts, errorUpdate>>

\* lines 293-297
FastAlertVoltage ==
    /\ ProcessRuns /\ fastPc = "alert_voltage"
    /\ tickAlerts' = Append(tickAlerts,
                            Alert(LowVoltageMessage, sensor_data["battery_voltage"]))
    /\ tickSteps' = Append(tickSteps, "alert")
    /\ fastPc' = "sleep"
    /\ UNCHANGED <<logVars, reqVars, stepVars, passVars, error_codes, mainPc, slowPc,
                   tickLog, tickUpdate, errorUpdate>>

\* line 299: time.sleep(0.5) returns
FastSleep ==
    /\ ProcessRuns /\ fastPc = "sleep"
    /\ fastPc' = "get_obd_data"
    /\ UNCHANGED <<logVars, reqVars, stepVars, passVars, error_codes, mainPc, slowPc,
                   tickLog, tickSteps, tickUpdate, tickAlerts, errorUpdate>>

\* line 304
SlowDtc ==
    /\ ProcessRuns /\ slowPc = "get_dtc_codes"
    /\ \E resp \in DtcResponses :
         LET r == get_dtc_codes(connection, error_codes, resp, clock)
         IN  /\ error_codes' = r.codes
             /\ slowPc' = IF r.raised THEN "dead" ELSE "emit_errors"
    /\ UNCHANGED <<logVars, reqVars, stepVars, passVars, mainPc, fastPc, tickLog, tickSteps,
                   tickUpdate, tickAlerts, errorUpdate>>

\* line 305
SlowEmit ==
    /\ ProcessRuns /\ slowPc = "emit_errors"
    /\ errorUpdate' = Some(error_codes)
    /\ slowPc' = "sleep"
    /\ UNCHANGED <<logVars, reqVars, stepVars, passVars, error_codes, mainPc, fastPc,
                   tickLog, tickSteps, tickUpdate, tickAlerts>>

\* line 306: time.sleep(900) returns
SlowSleep ==
    /\ ProcessRuns /\ slowPc = "sleep"
    /\ slowPc' = "get_dtc_codes"
    /\ UNCHANGED <<logVars, reqVars, stepVars, passVars, error_codes, mainPc, fastPc,
                   tickLog, tickSteps, tickUpdate, tickAlerts, errorUpdate>>

-----------------------------------------------------------------------------
(* One sampling pass over the whole range of its inputs *)

\* random.random(), in hundredths: every draw of [0, 1)
AllDraws == 0 .. 99

\* the intake pressure in hundredths of a kPa: every whole kPa of one byte
PressureReadings == {100 * k : k \in 0 .. 255}

\* the fuel level in hundredths of a percent: every half percent
LevelReadings == {50 * j : j \in 0 .. 200}

\* a connected pass in which every query returns a reading
SampleReadings ==
    /\ passState = "idle" /\ IsConnected(connection)
    /\ \E kpa \in PressureReadings, level \in LevelReadings :
         LET resps == [ch \in Channels |->
                         CASE ch = "turbo_pressure" -> Reading(kpa)
                           [] ch = "fuel_consumption" -> Reading(level)
                           [] OTHER -> FirstReading(ch)]
         IN  /\ sensor_data' = get_obd_data(connection, sensor_data, resps, <<>>).data
             /\ passLog' = resps
    /\ passState' = "returned"
    /\ passMode' = "obd"
    /\ UNCHANGED <<connection, passPc, logVars, reqVars, stepVars, loopVars>>

\* a simulated pass
SampleDraws ==
    /\ passState = "idle" /\ ~IsConnected(connection)
    /\ \E d \in AllDraws, ch1 \in Channels, d1 \in AllDraws :
         LET draws == [ch \in Channels |-> IF ch = ch1 THEN d1 ELSE d]
         IN  /\ sensor_data' = get_obd_data(connection, sensor_data, <<>>, draws).data
             /\ passLog' = [ch \in Channels |-> Reading(draws[ch])]
    /\ passState' = "returned"
    /\ passMode' = "sim"
    /\ UNCHANGED <<connection, passPc, logVars, reqVars, stepVars, loopVars>>

-----------------------------------------------------------------------------
(* A client connects, main.py:381-395 *)

\* the order of control_states.items(): the order of the literal, lines 57-62
ControlOrder == <<"light", "seat_heating", "seat_cooling", "steering_heating",
                  "spotlight", "screen_switch">>

\* an event as the client receives it; live: published by another thread's
\* broadcast, not by the connect handler
Received1(event, about, live) == [event |-> event, about |-> about, live |-> live]

At(place, i) == [at |-> place, i |-> i]

ConnInit ==
    /\ connPc = At("none", 0)
    /\ inbox = <<>>

\* the server has registered the client, which is from now on among the
\* receivers of every broadcast, and calls handle_connect (lines 381-383)
ClientConnects ==
    /\ connPc = At("none", 0)
    /\ connPc' = At("sensor_update", 0)
    /\ UNCHANGED <<inbox, logVars, reqVars, passVars, loopVars, readVars,
                   dtcVars, raceVars>>

Replayed(event, about, next) ==
    /\ inbox' = Append(inbox, Received1(event, about, FALSE))
    /\ connPc' = next
    /\ UNCHANGED <<logVars, reqVars, passVars, loopVars, readVars, dtcVars, raceVars>>

\* line 385
ReplaySensors ==
    /\ connPc = At("sensor_update", 0)
    /\ Replayed("sensor_update", "", At("error_update", 0))

\* line 386
ReplayErrors ==
    /\ connPc = At("error_update", 0)
    /\ Replayed("error_update", "", At("control_update", 1))

\* lines 389-393: one pass of the loop over control_states.items()
ReplayControl ==
    /\ connPc.at = "control_update"
    /\ Replayed("control_update", ControlOrder[connPc.i],
                IF connPc.i < Len(ControlOrder)
                THEN At("control_update", connPc.i + 1)
                ELSE At("radio_update", 0))

\* line 395, after which the handler returns
ReplayRadio ==
    /\ connPc = At("radio_update", 0)
    /\ Replayed("radio_update", "", At("done", 0))

LiveEvents == SelectSeq(inbox, LAMBDA e : e.live)

\* the client is registered and other threads have more to publish
Listening == connPc # At("none", 0) /\ Len(LiveEvents) < MaxLive

\* socketio.emit, or emit(..., broadcast=True), in another thread while the
\* client is registered: the event is queued for the client behind what
\* it has been sent so far
Broadcast(event, about) ==
    /\ inbox' = Append(inbox, Received1(event, about, TRUE))
    /\ UNCHANGED <<connPc, logVars, reqVars, passVars, loopVars, readVars,
                   dtcVars, raceVars>>

\* line 282, the fast loop
LiveSensorUpdate == Listening /\ Broadcast("sensor_update", "")

\* lines 286 and 293, the fast loop
LiveAlert == Listening /\ Broadcast("alert", "")

\* line 305, the slow loop
LiveErrorUpdate == Listening /\ Broadcast("error_update", "")

\* lines 332 and 409, another client's control change
LiveControlUpdate ==
    Listening /\ \E c \in {"light", "spotlight"} : Broadcast("control_update", c)

\* lines 349, 359, 369, 419, 424, 429, another client's radio change
LiveRadioUpdate == Listening /\ Broadcast("radio_update", "")

-----------------------------------------------------------------------------
(* A request thread reads the snapshot, main.py:313-315 *)

ReadInit == seen = None

\* the channels the running pass has written so far
WrittenSoFar == {(IF passMode = "obd" THEN ObdOrder ELSE SimOrder)[i] : i \in 1 .. passPc}

\* GET /api/sensors in a request thread while the fast loop samples:
\* jsonify(sensor_data) serialises the shared map as it is at that moment.
\* Of the snapshot read, the channels that hold the running pass's values
\* are recorded; a run has one such request, at any moment
GetSensors ==
    /\ seen = None
    /\ seen' = Some([fresh |-> WrittenSoFar])
    /\ UNCHANGED <<logVars, reqVars, passVars, loopVars, connVars, dtcVars, raceVars>>

-----------------------------------------------------------------------------
(* get_dtc_codes statement by statement, main.py:211-260, and a request     *)
(* thread that reads the fault list, main.py:317-319                        *)

DtcStepInit ==
    /\ dtcPc = "idle"
    /\ dtcResp = NullDtc
    /\ dtcBuf = <<>>
    /\ dtcStart = 0
    /\ lastErrors = <<>>
    /\ seenErrors = None

\* a demo list that has lost its last entry
DemoOrderShort == <<"P0300", "P0171", "P0420">>

\* the codes of the demo list, in the order of lines 218-221
DemoOrder == <<"P0300", "P0171", "P0420", "P0455">>

\* the code of each entry of a fault list
CodesOf(list) == [i \in 1 .. Len(list) |-> list[i].code]

DtcOthers == <<logVars, reqVars, passVars, connVars, readVars, raceVars,
               mainPc, fastPc, slowPc, tickLog, tickSteps, tickUpdate, tickAlerts, errorUpdate>>

\* get_dtc_codes is entered: the test of line 215, and with a connected
\* adapter the query of line 227 and the test of line 229
DtcEnter ==
    /\ dtcPc \in {"idle", "returned"}
    /\ dtcStart' = clock
    /\ lastErrors' = CodesOf(error_codes)
    /\ dtcBuf' = <<>>
    /\ IF ~IsConnected(connection)
       THEN dtcPc' = "demo" /\ UNCHANGED dtcResp
       ELSE \E resp \in DtcResponses :
              /\ dtcResp' = resp
              /\ dtcPc' = CASE resp.kind = "raise" -> "raised"
                            [] resp.kind = "null"  -> "null"
                            [] resp.kind = "value" -> "value"
    /\ UNCHANGED <<error_codes, seenErrors, DtcOthers>>

\* lines 218-221: the next entry of the list literal, with its own
\* datetime.now()
DtcDemoEntry ==
    /\ dtcPc = "demo" /\ Len(dtcBuf) < Len(DemoOrder)
    /\ dtcBuf' = Append(dtcBuf, FaultCode(DemoOrder[Len(dtcBuf) + 1], clock))
    /\ UNCHANGED <<error_codes, dtcPc, dtcResp, dtcStart, lastErrors, seenErrors,
                   DtcOthers>>

\* lines 217 and 223: the finished list is bound to error_codes
DtcDemoAssign ==
    /\ dtcPc = "demo" /\ Len(dtcBuf) = Len(DemoOrder)
    /\ error_codes' = dtcBuf
    /\ dtcPc' = "returned"
    /\ UNCHANGED <<dtcResp, dtcBuf, dtcStart, lastErrors, seenErrors, DtcOthers>>

\* line 230
DtcNull ==
    /\ dtcPc = "null"
    /\ error_codes' = <<>>
    /\ dtcPc' = "returned"
    /\ UNCHANGED <<dtcResp, dtcBuf, dtcStart, lastErrors, seenErrors, DtcOthers>>

\* line 232
DtcClear ==
    /\ dtcPc = "value"
    /\ error_codes' = <<>>
    /\ dtcPc' = "append"
    /\ UNCHANGED <<dtcResp, dtcBuf, dtcStart, lastErrors, seenErrors, DtcOthers>>

\* lines 248-260: one pass of the loop over dtc_list
DtcAppend ==
    /\ dtcPc = "append" /\ Len(error_codes) < Len(dtcResp.codes)
    /\ error_codes' = Append(error_codes,
                             FaultCode(dtcResp.codes[Len(error_codes) + 1], clock))
    /\ UNCHANGED <<dtcPc, dtcResp, dtcBuf, dtcStart, lastErrors, seenErrors, DtcOthers>>

\* the loop of line 248 is exhausted and get_dtc_codes returns
DtcReturn ==
    /\ dtcPc = "append" /\ Len(error_codes) = Len(dtcResp.codes)
    /\ dtcPc' = "returned"
    /\ UNCHANGED <<error_codes, dtcResp, dtcBuf, dtcStart, lastErrors, seenErrors,
                   DtcOthers>>

\* GET /api/errors in a request thread: jsonify(error_codes), lines 317-319;
\* a run has one such request, at any moment
GetErrors ==
    /\ seenErrors = None
    /\ seenErrors' = Some([codes |-> CodesOf(error_codes), during |-> dtcPc,
                           previous |-> lastErrors, asked |-> dtcResp.codes])
    /\ UNCHANGED <<error_codes, dtcPc, dtcResp, dtcBuf, dtcStart, lastErrors,
                   DtcOthers>>

-----------------------------------------------------------------------------
(* rotate_logs and log_sensor_data statement by statement in two threads,   *)
(* main.py:90-120                                                           *)

Threads == {"main", "fast"}

RaceInit ==
    /\ rotPc = [t \in Threads |-> "start"]
    /\ fileObj = [t \in Threads |-> "unopened"]
    /\ curOwner = "none"
    /\ closedWrite = FALSE

RaceOthers == <<reqVars, passVars, loopVars, connVars, readVars, dtcVars,
                clock, fsOps, lastCalled, initFiles, rotatedHours>>

Goes(t, place) == rotPc' = [rotPc EXCEPT ![t] = place]

\* the thread calls rotate_logs (lines 440 and 111) and evaluates the test
\* of line 96 on the last_hour it reads
RotTest ==
    \E t \in Threads :
        /\ rotPc[t] = "start"
        /\ Goes(t, IF HourChanged(clock, last_hour) THEN "check_open" ELSE "after_rotate")
        /\ UNCHANGED <<logFiles, current_log_file, last_hour, openHandles, fileObj,
                       curOwner, closedWrite, RaceOthers>>

\* line 97: if current_log_file
RotCheckOpen ==
    \E t \in Threads :
        /\ rotPc[t] = "check_open"
        /\ Goes(t, IF curOwner # "none" THEN "close" ELSE "open")
        /\ UNCHANGED <<logFiles, current_log_file, last_hour, openHandles, fileObj,
                       curOwner, closedWrite, RaceOthers>>

\* line 98: the file object current_log_file names now is closed (closing a
\* closed file does nothing)
RotClose ==
    \E t \in Threads :
        /\ rotPc[t] = "close"
        /\ fileObj' = [fileObj EXCEPT ![curOwner] = "closed"]
        /\ openHandles' = IF fileObj[curOwner] = "open" THEN openHandles - 1
                          ELSE openHandles
        /\ Goes(t, "open")
        /\ UNCHANGED <<logFiles, current_log_file, last_hour, curOwner, closedWrite,
                       RaceOthers>>

\* line 101, right-hand side: open(get_log_filename(), "a")
RotOpen ==
    \E t \in Threads :
        /\ rotPc[t] = "open"
        /\ fileObj' = [fileObj EXCEPT ![t] = "open"]
        /\ openHandles' = openHandles + 1
        /\ logFiles' = logFiles \cup {get_log_filename(clock)}
        /\ Goes(t, "assign")
        /\ UNCHANGED <<current_log_file, last_hour, curOwner, closedWrite, RaceOthers>>

\* line 101, the assignment: the file object bound before loses its last
\* reference; if it is still open it is closed when it is collected, at
\* once under reference counting and at some later time otherwise
RotAssign ==
    \E t \in Threads, collected \in BOOLEAN :
        /\ rotPc[t] = "assign"
        /\ LET orphan == curOwner \notin {"none", t} /\ fileObj[curOwner] = "open"
           IN  /\ orphan \/ collected
               /\ fileObj' = IF orphan /\ collected
                             THEN [fileObj EXCEPT ![curOwner] = "closed"]
                             ELSE fileObj
               /\ openHandles' = IF orphan /\ collected THEN openHandles - 1
                                 ELSE openHandles
        /\ curOwner' = t
        /\ current_log_file' = Some(get_log_filename(clock))
        /\ Goes(t, "set_hour")
        /\ UNCHANGED <<logFiles, last_hour, closedWrite, RaceOthers>>

\* line 102
RotSetHour ==
    \E t \in Threads :
        /\ rotPc[t] = "set_hour"
        /\ last_hour' = Some(clock)
        /\ Goes(t, "delete")
        /\ UNCHANGED <<logFiles, current_log_file, openHandles, fileObj, curOwner,
                       closedWrite, RaceOthers>>

\* lines 105-108
RotDelete ==
    \E t \in Threads :
        /\ rotPc[t] = "delete"
        /\ logFiles' = logFiles \ {OldFile(clock)}
        /\ Goes(t, "after_rotate")
        /\ UNCHANGED <<current_log_file, last_hour, openHandles, fileObj, curOwner,
                       closedWrite, RaceOthers>>

\* rotate_logs returns: the main thread goes on to line 443, the fast
\* thread to lines 113-118 of log_sensor_data and its `if current_log_file`
RotReturn ==
    \E t \in Threads :
        /\ rotPc[t] = "after_rotate"
        /\ Goes(t, IF t = "main" THEN "done"
                   ELSE IF curOwner # "none" THEN "write" ELSE "tick_done")
        /\ UNCHANGED <<logFiles, current_log_file, last_hour, openHandles, fileObj,
                       curOwner, closedWrite, RaceOthers>>

\* line 119: write on the file object current_log_file names now; on a
\* closed file it raises ValueError, which ends the thread
LogWrite ==
    /\ rotPc["fast"] = "write"
    /\ closedWrite' = (closedWrite \/ fileObj[curOwner] = "closed")
    /\ Goes("fast", IF fileObj[curOwner] = "closed" THEN "dead" ELSE "flush")
    /\ UNCHANGED <<logFiles, current_log_file, last_hour, openHandles, fileObj,
                   curOwner, RaceOthers>>

\* line 120: flush, which raises ValueError on a closed file as well
LogFlush ==
    /\ rotPc["fast"] = "flush"
    /\ Goes("fast", IF fileObj[curOwner] = "closed" THEN "dead" ELSE "tick_done")
    /\ UNCHANGED <<logFiles, current_log_file, last_hour, openHandles, fileObj,
                   curOwner, closedWrite, RaceOthers>>

\* the rest of the tick (lines 282-299) and the next tick's get_obd_data,
\* up to its call of log_sensor_data
NextTickLogs ==
    /\ rotPc["fast"] = "tick_done"
    /\ Goes("fast", "start")
    /\ UNCHANGED <<logFiles, current_log_file, last_hour, openHandles, fileObj,
                   curOwner, closedWrite, RaceOthers>>

StepInit == ConnInit /\ ReadInit /\ DtcStepInit /\ RaceInit

-----------------------------------------------------------------------------
(* Specifications *)

OldHours == (0 - MaxOldFiles) .. (0 - 1)

\* no OBD handle: connection stays None
NoObd == connection = "none"

InitLog == (\E old \in SUBSET OldHours : LogInit(old)) /\ ReqInit /\ NoObd /\ PassInit /\ LoopInit /\ StepInit

NextLog == Tick \/ CallRotateLogs

\* rotate_logs called at arbitrary moments while the hours advance
SpecLog == InitLog /\ [][NextLog]_vars

InitReq == LogInit({}) /\ ReqInit /\ NoObd /\ PassInit /\ LoopInit /\ StepInit

NextReq ==
    \/ PostSetControl
    \/ WsControlChange
    \/ PostRadioStation
    \/ PostRadioPlay
    \/ PostRadioVolume
    \/ WsRadioChange

\* control and radio requests arriving in any order
SpecReq == InitReq /\ [][NextReq]_vars

\* the import found no adapter, or one that is or is no longer connected
InitPass ==
    /\ LogInit({}) /\ ReqInit /\ PassInit /\ LoopInit /\ StepInit
    /\ connection \in {"none", "up", "down"}

NextPass == BeginPass \/ QueryChannel \/ SimulateChannel \/ EndPass

\* get_obd_data called again and again, with every response to every query
SpecPass == InitPass /\ [][NextPass]_vars

InitLoop ==
    /\ LogInit({}) /\ ReqInit /\ PassInit /\ LoopInit /\ StepInit
    /\ connection \in {"none", "up", "down"}

NextLoop ==
    \/ MainRotate
    \/ MainObd
    \/ MainDtc
    \/ FastSample
    \/ FastLog
    \/ FastEmit
    \/ FastCheckTemp
    \/ FastAlertTemp
    \/ FastCheckVoltage
    \/ FastAlertVoltage
    \/ FastSleep
    \/ SlowDtc
    \/ SlowEmit
    \/ SlowSleep

\* the process from the start of its threads on, within one hour bucket
SpecLoop == InitLoop /\ [][NextLoop]_vars

InitValues ==
    /\ LogInit({}) /\ ReqInit /\ PassInit /\ LoopInit /\ StepInit
    /\ connection \in {"none", "up", "down"}

NextValues == SampleReadings \/ SampleDraws

\* one call of get_obd_data on any readings, or with any draws
SpecValues == InitValues /\ [][NextValues]_vars

InitRead ==
    /\ LogInit({}) /\ ReqInit /\ PassInit /\ LoopInit /\ StepInit
    /\ connection \in {"none", "down"}

NextRead == BeginPass \/ SimulateChannel \/ EndPass \/ GetSensors

\* the fast loop's sampling passes in simulated mode, and a request thread
\* that reads the snapshot
SpecRead == InitRead /\ [][NextRead]_vars

InitRace == LogInit({}) /\ ReqInit /\ NoObd /\ PassInit /\ LoopInit /\ StepInit

NextRace ==
    \/ RotTest
    \/ RotCheckOpen
    \/ RotClose
    \/ RotOpen
    \/ RotAssign
    \/ RotSetHour
    \/ RotDelete
    \/ RotReturn
    \/ LogWrite
    \/ LogFlush
    \/ NextTickLogs

\* the main thread's rotate_logs at startup beside the fast loop's
\* log_sensor_data, within one hour bucket
SpecRace == InitRace /\ [][NextRace]_vars

InitConnect == LogInit({}) /\ ReqInit /\ NoObd /\ PassInit /\ LoopInit /\ StepInit

NextConnect ==
    \/ ClientConnects
    \/ ReplaySensors
    \/ ReplayErrors
    \/ ReplayControl
    \/ ReplayRadio
    \/ LiveSensorUpdate
    \/ LiveAlert
    \/ LiveErrorUpdate
    \/ LiveControlUpdate
    \/ LiveRadioUpdate

\* one client connects while the loops and other clients publish events
SpecConnect == InitConnect /\ [][NextConnect]_vars

InitDtc ==
    /\ LogInit({}) /\ ReqInit /\ PassInit /\ LoopInit /\ StepInit
    /\ connection \in {"none", "up", "down"}

NextDtc ==
    \/ Tick
    \/ DtcEnter
    \/ DtcDemoEntry
    \/ DtcDemoAssign
    \/ DtcNull
    \/ DtcClear
    \/ DtcAppend
    \/ DtcReturn
    \/ GetErrors

\* get_dtc_codes called again and again while time passes and a request
\* thread reads the fault list
SpecDtc == InitDtc /\ [][NextDtc]_vars

-----------------------------------------------------------------------------
(* Claims about the log rotation *)

\* C1: in every reachable state of the log directory at most 3 hourly log
\* files exist, also when an hour bucket is skipped between two calls or
\* older files exist at the start.
C1_AtMostThreeLogFiles == Cardinality(logFiles) <= 3

\* rotate_logs has run in every hour bucket from the start up to now
RanEveryHour == \A h \in 0 .. clock : h \in rotatedHours

\* C2: starting with files for the hours now-1, now-2 and now-3, once
\* rotate_logs has run across 3 or more consecutive hour boundaries exactly
\* the current and the prior hour's files remain.
C2_TwoFilesAfterThreeBoundaries ==
    (initFiles = {0 - 1, 0 - 2, 0 - 3} /\ clock >= 3 /\ RanEveryHour)
        => logFiles = {clock, clock - 1}

\* C3: a call of rotate_logs made while the clock is still in the hour
\* bucket of the previous call opens, closes and deletes no file and leaves
\* current_log_file and last_hour unchanged.
C3_SameHourCallHasNoEffect ==
    [][(lastCalled' = "rotate_logs" /\ last_hour = Some(clock))
         => /\ fsOps' = <<>>
            /\ current_log_file' = current_log_file
            /\ last_hour' = last_hour
            /\ logFiles' = logFiles
            /\ openHandles' = openHandles]_vars

\* a call in the same bucket as an earlier rotating call has returned
C3_Witness ==
    /\ lastCalled = "rotate_logs"
    /\ fsOps = <<>>
    /\ last_hour = Some(clock)
    /\ current_log_file = Some(clock)
    /\ clock \in logFiles

-----------------------------------------------------------------------------
(* Claims about the sampling pass *)

\* the value the pass owes channel ch for the response it got
Expected(ch, resp) ==
    IF resp.kind = "value" THEN Convert(ch, resp.raw) ELSE Fallback(ch)

\* C5: in connected mode, whichever channels fail in a sampling pass (no data
\* or an exception), after the pass every failing channel holds its fallback
\* and every other channel the value read in that pass; no failure keeps
\* the channels after it from being sampled.
C5_FailuresAreIsolated ==
    (passMode = "obd" /\ passState \in {"returned", "raised"})
        => \A ch \in Channels :
              /\ ch \in DOMAIN passLog
              /\ sensor_data[ch] = Expected(ch, passLog[ch])

\* C6: in every reachable state sensor_data has exactly the 9 channel ids,
\* each bound to a number and never to null, in simulated mode and in
\* connected mode with any pattern of acquisition failures.
C6_SnapshotIsComplete ==
    /\ DOMAIN sensor_data = Channels
    /\ \A ch \in Channels : sensor_data[ch].t \in {"int", "float"}

\* a connected pass in which every query failed has returned
C6_Witness ==
    /\ passMode = "obd" /\ passState = "returned"
    /\ \A ch \in Channels : passLog[ch].kind \in {"null", "raise"}

-----------------------------------------------------------------------------
(* Claims about the loops *)

\* C4: the telemetry loop and the fault-code loop never stop: whatever fails
\* inside a tick (a query that raises, a log entry that cannot be written),
\* the loop goes on to its next tick.
C4_LoopsNeverStop == fastPc # "dead" /\ slowPc # "dead"

AlertsWith(message) == SelectSeq(tickAlerts, LAMBDA a : a.message = message)

\* C7: in every tick exactly one high-temperature alert is published if the
\* snapshot published in the tick has motor_temp > 100 and none otherwise,
\* exactly one low-voltage alert if it has battery_voltage < 12.0 and none
\* otherwise, and each alert carries the value of that snapshot.
C7_AlertsMatchSnapshot ==
    fastPc = "sleep" =>
        LET published == tickUpdate[1]
            high == AlertsWith(HighTempMessage)
            low  == AlertsWith(LowVoltageMessage)
        IN  /\ Len(high) = IF TempCritical(published) THEN 1 ELSE 0
            /\ \A i \in 1 .. Len(high) : high[i].value = published["motor_temp"]
            /\ Len(low) = IF VoltageLow(published) THEN 1 ELSE 0
            /\ \A i \in 1 .. Len(low) : low[i].value = published["battery_voltage"]

\* the steps of a tick up to the sensor_update, lines 278-282
TickOrder == <<"sample", "log", "sensor_update">>

\* C18: within every tick of the fast loop the snapshot is sampled, then its
\* log entry is appended, then the sensor_update is published, then the
\* alerts are published: no alert comes before the tick's sensor_update and
\* no sensor_update before the tick's log append.
C18_TickStepsInOrder ==
    /\ Len(tickSteps) <= Len(TickOrder) + 2
    /\ \A i \in 1 .. Len(tickSteps) :
          tickSteps[i] = IF i <= Len(TickOrder) THEN TickOrder[i] ELSE "alert"

\* a tick that published both alerts has come to its sleep
C18_Witness ==
    /\ fastPc = "sleep"
    /\ tickSteps = TickOrder \o <<"alert", "alert">>
    /\ tickLog # None /\ tickUpdate # None /\ Len(tickAlerts) = 2

\* C20: in every tick the sensors of the log entry are the payload of the
\* tick's sensor_update and the values its alert thresholds are evaluated on
\* and its alerts carry, also while the main thread's get_obd_data runs on
\* the same map.
C20_TickUsesOneSnapshot ==
    [][/\ (fastPc = "emit_update" /\ fastPc' = "check_temp")
            => tickUpdate' = tickLog
       /\ (fastPc \in {"check_temp", "alert_temp"} /\ fastPc' # fastPc)
            => sensor_data["motor_temp"] = tickLog[1]["motor_temp"]
       /\ (fastPc \in {"check_voltage", "alert_voltage"} /\ fastPc' # fastPc)
            => sensor_data["battery_voltage"] = tickLog[1]["battery_voltage"]]_vars

-----------------------------------------------------------------------------
(* Claims about the control and radio requests *)

\* C8: after any sequence of radio requests, by POST or by radio_change and
\* with any payloads, the volume is an integer in [0,100] and current_station
\* an integer in [0, len(stations)).
C8_RadioStateInRange ==
    /\ radio_data.volume.t = "int"
    /\ 0 <= radio_data.volume.v /\ radio_data.volume.v <= 100
    /\ radio_data.current_station.t = "int"
    /\ 0 <= radio_data.current_station.v
    /\ radio_data.current_station.v < Len(Stations)

\* the request names an unknown control, or carries a volume or a station
\* index that is out of range
FailsValidation(req) ==
    \/ /\ req.handler \in {"set_control", "control_change"}
       /\ req.name \notin Controls
    \/ /\ req.handler \in {"set_radio_volume", "radio_change"}
       /\ "volume" \in DOMAIN req.data
       /\ Comparable(req.data["volume"])
       /\ ~(0 <= Tenths(req.data["volume"]) /\ Tenths(req.data["volume"]) <= 1000)
    \/ /\ req.handler \in {"set_radio_station", "radio_change"}
       /\ "station" \in DOMAIN req.data
       /\ Comparable(req.data["station"])
       /\ ~(0 <= Tenths(req.data["station"])
            /\ Tenths(req.data["station"]) < 10 * Len(Stations))

\* C9: a request that fails validation changes no field of the control or
\* radio state and publishes no update event, a radio_change message with one
\* invalid field among valid ones included.
C9_RejectedRequestChangesNothing ==
    [][(nRequests' = nRequests + 1 /\ FailsValidation(lastRequest'))
         => /\ control_states' = control_states
            /\ radio_data' = radio_data
            /\ emitted' = <<>>]_vars

\* C10: after any sequence of control requests, also one that omits the state
\* field, the control state has exactly the 6 control ids, each a boolean.
C10_ControlsAreBoolean ==
    /\ DOMAIN control_states = Controls
    /\ \A c \in Controls : control_states[c].t = "bool"

\* C11: a control_change message leaves the control state and publishes the
\* control_update events that a POST to set_control with the same control id
\* and payload would, and a radio_change message carrying one field leaves
\* the radio state and publishes the radio_update events that the POST to
\* that field's endpoint with the same payload would.
C11_WebSocketMatchesPost ==
    [][(nRequests' = nRequests + 1) =>
        LET req == lastRequest'
            asPost ==
                CASE DOMAIN req.data = {"station"} -> set_radio_station(radio_data, req.data)
                  [] DOMAIN req.data = {"playing"} -> set_radio_play(radio_data, req.data)
                  [] DOMAIN req.data = {"volume"}  -> set_radio_volume(radio_data, req.data)
                  [] OTHER -> Entry(radio_data)
        IN  /\ req.handler = "control_change" =>
                /\ control_states' = set_control(control_states, req.name, req.data).cs
                /\ emitted' = set_control(control_states, req.name, req.data).emitted
            /\ (req.handler = "radio_change" /\ Cardinality(DOMAIN req.data) = 1) =>
                /\ radio_data' = asPost.rd
                /\ emitted' = asPost.emitted]_vars

-----------------------------------------------------------------------------
(* Claims about a connecting client *)

\* the replay: snapshot, fault list, each control in turn, radio state
Replay ==
    <<Received1("sensor_update", "", FALSE), Received1("error_update", "", FALSE)>>
    \o [i \in 1 .. Len(ControlOrder) |-> Received1("control_update", ControlOrder[i], FALSE)]
    \o <<Received1("radio_update", "", FALSE)>>

\* C12: a newly connected client receives, before any live update event
\* reaches it, exactly one sensor_update, one error_update, one
\* control_update per control id and one radio_update, however the connect
\* handler interleaves with the loops and with other clients' changes.
C12_ReplayBeforeLiveUpdates ==
    /\ connPc = At("done", 0) => SelectSeq(inbox, LAMBDA e : ~e.live) = Replay
    /\ \A i \in 1 .. Len(inbox) :
          inbox[i].live => (i > Len(Replay) /\ SubSeq(inbox, 1, Len(Replay)) = Replay)

-----------------------------------------------------------------------------
(* Claims about the fault-code pass *)

\* the four demo entries, each with a time read while the pass ran
IsDemoList(list) ==
    /\ CodesOf(list) = <<"P0300", "P0171", "P0420", "P0455">>
    /\ \A i \in 1 .. Len(list) :
          /\ list[i] = FaultCode(list[i].code, list[i].time)
          /\ dtcStart <= list[i].time /\ list[i].time <= clock

\* C13 as stated: whenever the fault-code query yields no result (no
\* adapter, a disconnected one, or a null response of the connected one)
\* get_dtc_codes sets the fault list to the 4 demo codes P0300, P0171,
\* P0420, P0455, each timestamped with the sampling time.
C13_NoResultGivesDemoCodes ==
    (dtcPc = "returned" /\ (~IsConnected(connection) \/ dtcResp.kind = "null"))
        => IsDemoList(error_codes)

\* C13 as amended: without an adapter, or with a disconnected one,
\* get_dtc_codes sets the fault list to the 4 demo codes, each timestamped
\* with a time read during the pass; a null response of the connected adapter
\* sets the fault list to the empty list.
C13_DemoCodesWithoutConnection ==
    dtcPc = "returned" =>
        /\ ~IsConnected(connection) => IsDemoList(error_codes)
        /\ (IsConnected(connection) /\ dtcResp.kind = "null") => error_codes = <<>>

\* a pass with a disconnected adapter has returned, the clock having moved
\* while the list was built
C13_Witness ==
    /\ dtcPc = "returned" /\ connection = "down"
    /\ Len(error_codes) = 4
    /\ error_codes[1].time < error_codes[4].time

\* the list the pass will have stored when it returns
NewList(o) ==
    CASE o.during = "demo" -> DemoOrder
      [] o.during = "null" -> <<>>
      [] o.during \in {"value", "append"} -> o.asked
      [] OTHER -> o.previous

\* C17: a reader that runs while get_dtc_codes does observes the complete
\* list of the previous pass or the complete list of the new pass, never an
\* empty or partly filled list.
C17_FaultListReplacedAtomically ==
    seenErrors # None =>
        LET o == seenErrors[1]
        IN  o.during \notin {"idle", "returned"}
                => (o.codes = o.previous \/ o.codes = NewList(o))

-----------------------------------------------------------------------------
(* Claims about the stored values *)

SimulatedPassDone == passMode = "sim" /\ passState = "returned"

\* C14 as stated: in simulated mode rpm lies in [1500,4000) and
\* battery_voltage, rounded to 1 decimal place, in [12.0,12.8): 12.8 is never
\* produced, for every draw of [0,1).
C14_SimulatedValuesInHalfOpenRanges ==
    SimulatedPassDone =>
        /\ sensor_data["rpm"].t = "int"
        /\ 1500 <= sensor_data["rpm"].v /\ sensor_data["rpm"].v < 4000
        /\ 120 <= Tenths(sensor_data["battery_voltage"])
        /\ Tenths(sensor_data["battery_voltage"]) < 128

\* C14 as amended: in simulated mode rpm lies in [1500,4000) and
\* battery_voltage, rounded to 1 decimal place, in the closed range
\* [12.0,12.8], for every draw of [0,1).
C14_SimulatedValuesInRanges ==
    SimulatedPassDone =>
        /\ sensor_data["rpm"].t = "int"
        /\ 1500 <= sensor_data["rpm"].v /\ sensor_data["rpm"].v < 4000
        /\ 120 <= Tenths(sensor_data["battery_voltage"])
        /\ Tenths(sensor_data["battery_voltage"]) <= 128

\* a simulated pass has drawn 0.99 for rpm and for battery_voltage
C14_Witness ==
    /\ SimulatedPassDone
    /\ passLog["rpm"].raw = 99 /\ passLog["battery_voltage"].raw = 99
    /\ sensor_data["rpm"] = JInt(3975)
    /\ sensor_data["battery_voltage"] = JFloat(128)

\* t tenths is n/d rounded to the nearest tenth (either one at a tie)
IsNearest(t, n, d) == 2 * t * d - 2 * n <= d /\ 2 * n - 2 * t * d <= d

\* C15: in connected mode turbo_pressure is the intake pressure in kPa
\* divided by 100 and rounded to 1 decimal place (202 kPa gives 2.0), and
\* fuel_consumption is 10 - percent/10 rounded to 1 decimal place when the
\* fuel level is above 0 (55% gives 4.5) and 0 when it is 0.
C15_ConversionsMatchReference ==
    (passMode = "obd" /\ passState = "returned") =>
        LET kpa   == passLog["turbo_pressure"].raw
            level == passLog["fuel_consumption"].raw
            turbo == sensor_data["turbo_pressure"]
            fuel  == sensor_data["fuel_consumption"]
        IN  /\ turbo.t = "float" /\ IsNearest(turbo.v, kpa, 1000)
            /\ kpa = 20200 => turbo = JFloat(20)
            /\ level > 0 => (fuel.t = "float" /\ IsNearest(fuel.v, 10000 - level, 100))
            /\ level = 5500 => fuel = JFloat(45)
            /\ level = 0 => fuel = JInt(0)

\* a connected pass has read 202 kPa and a fuel level of 55%
C15_Witness ==
    /\ passMode = "obd" /\ passState = "returned"
    /\ passLog["turbo_pressure"] = Reading(20200)
    /\ passLog["fuel_consumption"] = Reading(5500)
    /\ sensor_data["turbo_pressure"] = JFloat(20)
    /\ sensor_data["fuel_consumption"] = JFloat(45)

-----------------------------------------------------------------------------
(* Claims about readers of the snapshot *)

\* C16: every snapshot a reader observes is the complete result of one
\* sampling pass or the initial snapshot: it never holds the values of some
\* channels as the running pass wrote them next to the values of other
\* channels as an earlier pass (or the initialisation) left them.
C16_ReaderSeesOnePass ==
    seen # None => seen[1].fresh \in {{}, Channels}

-----------------------------------------------------------------------------
(* Claims about the log file handle *)

\* C19: log_sensor_data never writes to a closed file handle and at most
\* one log file handle is open at any time, however the main thread's
\* rotate_logs at startup interleaves with the rotate_logs and the write of
\* the fast loop.
C19_OneOpenHandleNoClosedWrite ==
    /\ ~closedWrite
    /\ openHandles <= 1

====
